---- MODULE Spec2Model ----
(***************************************************************************)
(* Request-dispatch engine of flask_rest_jsonapi/resource.py.              *)
(*                                                                         *)
(* One endpoint (a ResourceList, a ResourceDetail or a Relationship class) *)
(* is registered in Init; every action is one whole HTTP request on it:    *)
(* Resource.dispatch_request resolving the handler, the handler body, and  *)
(* the normalisation and json.dumps of what the handler returned.          *)
(***************************************************************************)
EXTENDS Integers, Sequences, FiniteSets, TLC

VARIABLES
    endpoint,    \* the registered class: kind, declared type, type_ attribute
    opts,        \* cls.opts, the Meta options record of the endpoint
    registered,  \* value of opts when the class was created (history)
    store,       \* state behind the data layer
    req,         \* the request bound to flask.request
    resp,        \* what dispatch_request produced for it
    calls,       \* data layer calls made for that request, in order
    meth,        \* the handler dispatch_request resolved and what it returned
    threads,     \* Relationship.get of requests served at the same time
    pc           \* "idle", "pending" (request bound) or "answered"

vars == <<endpoint, opts, registered, store, req, resp, calls, meth, threads, pc>>

----------------------------------------------------------------------------
(* Bounds *)

MaxId == 2        \* identifiers are 1..MaxId
MaxItems == 2     \* longest `data` list of a relationship document

Ids == 1..MaxId

----------------------------------------------------------------------------
(* Python values that flow through the handlers *)

IntV(n) == [t |-> "int", n |-> n, segs |-> <<>>]
\* a str, kept as the list str.split('.') gives
StrV(segs) == [t |-> "str", n |-> 0, segs |-> segs]
ObjV(n) == [t |-> "obj", n |-> n, segs |-> <<>>]
PyTrue == [t |-> "bool", n |-> 1, segs |-> <<>>]
PyFalse == [t |-> "bool", n |-> 0, segs |-> <<>>]
NoAttr == [t |-> "missing", n |-> 0, segs |-> <<>>]

EmptyDict == [k \in {} |-> NoAttr]

\* dict.update({k: v})
DictUpdate(d, k, v) == [x \in DOMAIN d \cup {k} |-> IF x = k THEN v ELSE d[x]]

\* dict.pop(k, None)
DictPop(d, k) == [x \in DOMAIN d \ {k} |-> d[x]]


OwnerOf(n) == (n % MaxId) + 1

\* getattr(value, field); NoAttr stands for AttributeError
GetAttr(v, field) ==
    IF v.t # "obj" THEN NoAttr
    ELSE IF field = "id" THEN IntV(v.n)
    ELSE IF field = "name" THEN StrV(<<"bob">>)
    ELSE IF field = "owner" THEN ObjV(OwnerOf(v.n))
    ELSE NoAttr

RECURSIVE WalkPath(_, _)
\* the inner loop of Relationship.get: getattr along value.split('.')
WalkPath(v, segs) ==
    IF v.t = "missing" THEN NoAttr
    ELSE IF segs = <<>> THEN v
    ELSE WalkPath(GetAttr(v, Head(segs)), Tail(segs))

\* value.split('.') exists on str only, then the walk from obj
EvalTemplateValue(obj, value) ==
    IF value.t # "str" THEN NoAttr ELSE WalkPath(obj, value.segs)

----------------------------------------------------------------------------
(* Error taxonomy and error envelope (flask_rest_jsonapi.exceptions and    *)
(* flask_rest_jsonapi.errors)                                              *)

NoExc == [exc |-> "none", status |-> 0, title |-> "", pointer |-> "", detail |-> ""]

BadRequest(pointer, detail) ==
    [exc |-> "BadRequest", status |-> 400, title |-> "Bad request",
     pointer |-> pointer, detail |-> detail]

InvalidType(pointer, detail) ==
    [exc |-> "InvalidType", status |-> 400, title |-> "Invalid type",
     pointer |-> pointer, detail |-> detail]

InvalidField ==
    [exc |-> "InvalidField", status |-> 400,
     title |-> "Invalid fields querystring parameter.",
     pointer |-> "", detail |-> "invalid field"]

InvalidInclude ==
    [exc |-> "InvalidInclude", status |-> 400,
     title |-> "Invalid include querystring parameter.",
     pointer |-> "", detail |-> "invalid include"]

\* the statuses a data layer gives its not-found conditions
NotFoundStatuses == {404, 410}

ObjectNotFound(status) ==
    [exc |-> "ObjectNotFound", status |-> status, title |-> "Object not found",
     pointer |-> "", detail |-> "object not found"]

RelationNotFound(status) ==
    [exc |-> "RelationNotFound", status |-> status, title |-> "Relation not found",
     pointer |-> "", detail |-> "relation not found"]

\* a Python exception that is no JsonApiException
PyError(name) ==
    [exc |-> name, status |-> 0, title |-> "", pointer |-> "", detail |-> ""]

\* JsonApiException.to_dict: one error object
ToDict(e) ==
    [status |-> ToString(e.status), title |-> e.title,
     detail |-> e.detail, pointer |-> e.pointer]

----------------------------------------------------------------------------
(* Python values a handler returns as the body, and json.dumps             *)

NoData == [shape |-> "none", type |-> "", id |-> 0, val |-> "", ids |-> {}]
NoLink == [endpoint |-> "", params |-> EmptyDict]
NoLinks == [self |-> NoLink, related |-> NoLink]

\* a str body, as its list of characters
PyStr(chars) ==
    [t |-> "str", chars |-> chars, keys |-> {}, errors |-> <<>>,
     data |-> NoData, links |-> NoLinks]

\* a dict body; keys are the members present
PyDoc(keys, errors, data, links) ==
    [t |-> "dict", chars |-> <<>>, keys |-> keys, errors |-> errors,
     data |-> data, links |-> links]

\* jsonapi_errors(list of error objects)
jsonapi_errors(errs) == PyDoc({"errors", "jsonapi"}, errs, NoData, NoLinks)

Tok(kind, c, doc) == [tok |-> kind, c |-> c, doc |-> doc]

\* json.dumps: the text as a list of tokens; a str is written between quotes
JsonDumps(py) ==
    IF py.t = "str"
    THEN <<Tok("quote", "\"", PyStr(<<>>))>>
         \o [i \in 1..Len(py.chars) |-> Tok("char", py.chars[i], PyStr(<<>>))]
         \o <<Tok("quote", "\"", PyStr(<<>>))>>
    ELSE <<Tok("lbrace", "{", PyStr(<<>>)), Tok("members", "", py),
           Tok("rbrace", "}", PyStr(<<>>))>>

----------------------------------------------------------------------------
(* Resource.dispatch_request, after the handler returned or raised         *)

\* what a handler hands back: a non-tuple, a tuple, or an exception
Raw(py) == [tuple |-> FALSE, items |-> <<py>>, raised |-> NoExc]
Tuple2(py, status) == [tuple |-> TRUE, items |-> <<py, status>>, raised |-> NoExc]
Tuple3(py, status, headers) ==
    [tuple |-> TRUE, items |-> <<py, status, headers>>, raised |-> NoExc]
Raise(e) == [tuple |-> FALSE, items |-> <<>>, raised |-> e]

Fault(e) == [fault |-> e.exc, status |-> 0, body |-> <<>>, headers |-> EmptyDict]

\* make_response(body, status, headers)
make_response(body, status, headers) ==
    [fault |-> "none", status |-> status, body |-> body, headers |-> headers]

\* the dispatcher with headers = {} reached after the three-way unpacking too
dispatch_request_DropsHeaders(ret) ==
    IF ret.raised.exc # "none" THEN Fault(ret.raised)
    ELSE IF ~ret.tuple THEN make_response(JsonDumps(ret.items[1]), 200, EmptyDict)
    ELSE IF Len(ret.items) \in {2, 3}
         THEN make_response(JsonDumps(ret.items[1]), ret.items[2], EmptyDict)
    ELSE Fault(PyError("UnboundLocalError"))

dispatch_request(ret) ==
    IF ret.raised.exc # "none" THEN Fault(ret.raised)
    ELSE IF ~ret.tuple THEN make_response(JsonDumps(ret.items[1]), 200, EmptyDict)
    ELSE IF Len(ret.items) = 3
         THEN make_response(JsonDumps(ret.items[1]), ret.items[2], ret.items[3])
    ELSE IF Len(ret.items) = 2
         THEN make_response(JsonDumps(ret.items[1]), ret.items[2], EmptyDict)
    ELSE Fault(PyError("UnboundLocalError"))

----------------------------------------------------------------------------
(* The data layer (flask_rest_jsonapi.data_layers): objects by identifier  *)

Vals == {"a", "b"}

\* store.objects[i] is "absent" or the attribute value of object i
Exists(st, n) == n \in Ids /\ st.objects[n] # "absent"

Call(op, id, arg) == [op |-> op, id |-> id, arg |-> arg]

\* identifiers create_object may hand out
FreeIds(st) == {n \in Ids : st.objects[n] = "absent"}

create_object(st, n, val) == [st EXCEPT !.objects[n] = val]

update_object(st, n, val) == [st EXCEPT !.objects[n] = val]

delete_object(st, n) == [st EXCEPT !.objects[n] = "absent"]

\* outcomes of get_relation / create_relation / update_relation /
\* delete_relation for owner n: a missing owner is ObjectNotFound; with the
\* owner there the relation or a related object may still be missing
RelationOutcomes(st, n) ==
    IF ~Exists(st, n)
    THEN {ObjectNotFound(s) : s \in NotFoundStatuses}
    ELSE {NoExc} \cup {RelationNotFound(s) : s \in NotFoundStatuses}
                 \cup {ObjectNotFound(s) : s \in NotFoundStatuses}

----------------------------------------------------------------------------
(* The schema (marshmallow_jsonapi) and compute_schema                     *)

Fields == <<"name", "email">>

\* state of a field in a resource document
FieldStates == {"ok", "invalid", "missing"}

\* a field fails when its value is invalid, or when it is missing and the
\* load is not partial
Fails(doc, partial, i) ==
    \/ doc.fields[i] = "invalid"
    \/ doc.fields[i] = "missing" /\ ~partial

RECURSIVE FieldErrors(_, _, _)
\* the error collection of a load: one entry per failing field, no status yet
FieldErrors(doc, partial, i) ==
    IF i > Len(Fields) THEN <<>>
    ELSE (IF Fails(doc, partial, i)
          THEN <<[status |-> "", title |-> "", detail |-> doc.fields[i],
                  pointer |-> Fields[i]]>>
          ELSE <<>>) \o FieldErrors(doc, partial, i + 1)

TypeError409 ==
    <<[status |-> "", title |-> "", detail |-> "Invalid type",
       pointer |-> "/data/type"]>>

\* schema.load(json_data): (data, errors) or a raised exception carrying
\* messages; a strict schema raises what a lax one returns
SchemaLoad(ep, doc, partial) ==
    LET errs == FieldErrors(doc, partial, 1) IN
    IF doc.type # ep.type
    THEN [raised |-> "IncorrectTypeError", data |-> "", errors |-> TypeError409]
    ELSE IF errs # <<>> /\ ep.strict
    THEN [raised |-> "ValidationError", data |-> "", errors |-> errs]
    ELSE IF errs # <<>>
    THEN [raised |-> "none", data |-> "", errors |-> errs]
    ELSE [raised |-> "none", data |-> doc.val, errors |-> <<>>]

\* schema.dump(obj).data
SchemaDump(ep, st, n) ==
    PyDoc({"data"}, <<>>,
          [shape |-> "resource", type |-> ep.type, id |-> n,
           val |-> st.objects[n], ids |-> {}],
          NoLinks)

\* schema.dump(objects, many=True).data with the pagination links added
SchemaDumpMany(ep, st) ==
    PyDoc({"data", "links", "meta"}, <<>>,
          [shape |-> "collection", type |-> ep.type, id |-> 0, val |-> "",
           ids |-> {n \in Ids : Exists(st, n)}],
          NoLinks)

\* compute_schema(schema, kwargs, qs, include): the condition it raises
ComputeSchema(qs, include) ==
    IF include = "invalid" THEN InvalidInclude
    ELSE IF qs.fields = "invalid" THEN InvalidField
    ELSE NoExc

----------------------------------------------------------------------------
(* Meta options (cls.opts)                                                 *)

\* hasattr(self.opts, name)
HasOpt(o, name) == name \in o.attrs

\* the for loops over errors['errors'] that stamp status and title
StampErrors(errs, status, title) ==
    [i \in 1..Len(errs) |-> [errs[i] EXCEPT !.status = status, !.title = title]]

\* the body returned with a stamped error collection (e.messages)
ErrorsDoc(errs) == PyDoc({"errors"}, errs, NoData, NoLinks)

Outcome(ret, o, st, cs) == [ret |-> ret, opts |-> o, store |-> st, calls |-> cs]

----------------------------------------------------------------------------
(* ResourceList                                                            *)

ResourceListGet(ep, o, st, r) ==
    LET cs == <<Call("get_collection", 0, "")>>
        \* schema_kwargs is the dict held by opts when opts has one
        o2 == IF HasOpt(o, "schema_get_kwargs")
              THEN [o EXCEPT !.schema_get_kwargs = DictUpdate(@, "many", PyTrue)]
              ELSE o
        e == ComputeSchema(r.qs, "none")
    IN  IF e.exc # "none"
        THEN Outcome(Tuple2(jsonapi_errors(<<ToDict(e)>>), e.status), o2, st, cs)
        ELSE Outcome(Raw(SchemaDumpMany(ep, st)), o2, st, cs)

\* a handler that has not returned yet
NoReturn == [tuple |-> FALSE, items |-> <<>>, raised |-> NoExc]

Returned(ret) == ret # NoReturn

\* LoadErrorReturn with ValidationError caught before its subclass
\* IncorrectTypeError
LoadErrorReturn_TypeAs422(ld) ==
    IF ld.raised \in {"IncorrectTypeError", "ValidationError"}
    THEN Tuple2(ErrorsDoc(StampErrors(ld.errors, "422", "Validation error")), 422)
    ELSE IF ld.errors # <<>>
    THEN Tuple2(ErrorsDoc(StampErrors(ld.errors, "422", "Validation error")), 422)
    ELSE NoReturn

\* LoadErrorReturn without the `if errors:` branch for returned errors
LoadErrorReturn_RaisedOnly(ld) ==
    IF ld.raised = "IncorrectTypeError"
    THEN Tuple2(ErrorsDoc(StampErrors(ld.errors, "409", "Incorrect type")), 409)
    ELSE IF ld.raised = "ValidationError"
    THEN Tuple2(ErrorsDoc(StampErrors(ld.errors, "422", "Validation error")), 422)
    ELSE NoReturn

\* the except clauses around schema.load and the `if errors:` after it
\* (the same text in ResourceList.post and ResourceDetail.patch)
LoadErrorReturn(ld) ==
    IF ld.raised = "IncorrectTypeError"
    THEN Tuple2(ErrorsDoc(StampErrors(ld.errors, "409", "Incorrect type")), 409)
    ELSE IF ld.raised = "ValidationError"
    THEN Tuple2(ErrorsDoc(StampErrors(ld.errors, "422", "Validation error")), 422)
    ELSE IF ld.errors # <<>>
    THEN Tuple2(ErrorsDoc(StampErrors(ld.errors, "422", "Validation error")), 422)
    ELSE NoReturn

ResourceListPost(ep, o, st, r, newId) ==
    LET ld == SchemaLoad(ep, r.doc, FALSE)
        early == LoadErrorReturn(ld)
    IN  IF Returned(early) THEN Outcome(early, o, st, <<>>)
        ELSE LET st2 == create_object(st, newId, ld.data) IN
             Outcome(Tuple2(SchemaDump(ep, st2, newId), 201), o, st2,
                     <<Call("create_object", newId, ld.data)>>)

----------------------------------------------------------------------------
(* ResourceDetail                                                          *)

\* a get that builds the schema before it fetches the object
ResourceDetailGet_SchemaFirst(ep, o, st, r, nf) ==
    LET cs == <<Call("get_object", r.id, "")>>
        e == ComputeSchema(r.qs, r.qs.include)
    IN  IF e.exc # "none"
        THEN Outcome(Tuple2(jsonapi_errors(<<ToDict(e)>>), e.status), o, st, <<>>)
        ELSE IF ~Exists(st, r.id)
        THEN Outcome(Tuple2(jsonapi_errors(<<ToDict(ObjectNotFound(nf))>>), nf), o, st, cs)
        ELSE Outcome(Raw(SchemaDump(ep, st, r.id)), o, st, cs)

ResourceDetailGet(ep, o, st, r, nf) ==
    LET cs == <<Call("get_object", r.id, "")>>
        e == ComputeSchema(r.qs, r.qs.include)
    IN  IF ~Exists(st, r.id)
        THEN Outcome(Tuple2(jsonapi_errors(<<ToDict(ObjectNotFound(nf))>>), nf), o, st, cs)
        ELSE IF e.exc # "none"
        THEN Outcome(Tuple2(jsonapi_errors(<<ToDict(e)>>), e.status), o, st, cs)
        ELSE Outcome(Raw(SchemaDump(ep, st, r.id)), o, st, cs)

\* PatchIdCheck without the comparison with the route identifier
PatchIdCheck_NoCompare(doc, routeId) ==
    IF doc.id.t = "missing"
    THEN BadRequest("/data/id", "Missing id in \"data\" node")
    ELSE NoExc

\* the try block of ResourceDetail.patch that compares the identifiers
PatchIdCheck(doc, routeId) ==
    IF doc.id.t = "missing"
    THEN BadRequest("/data/id", "Missing id in \"data\" node")
    ELSE IF doc.id # IntV(routeId)
    THEN BadRequest("/data/id",
                    "Value of id does not match the resource identifier in url")
    ELSE NoExc

\* PatchFetchUpdate without the except clause for ObjectNotFound
PatchFetchUpdate_NoMiss(ep, o, st, r, nf, data) ==
    LET st2 == update_object(st, r.id, data) IN
    Outcome(Raw(SchemaDump(ep, st2, r.id)), o, st2,
            <<Call("get_object", r.id, ""), Call("update_object", r.id, data)>>)

\* the end of ResourceDetail.patch: get_object, update_object, dump
PatchFetchUpdate(ep, o, st, r, nf, data) ==
    IF ~Exists(st, r.id)
    THEN Outcome(Tuple2(jsonapi_errors(<<ToDict(ObjectNotFound(nf))>>), nf), o, st,
                 <<Call("get_object", r.id, "")>>)
    ELSE LET st2 == update_object(st, r.id, data) IN
         Outcome(Raw(SchemaDump(ep, st2, r.id)), o, st2,
                 <<Call("get_object", r.id, ""), Call("update_object", r.id, data)>>)

ResourceDetailPatch(ep, o, st, r, nf) ==
    LET \* schema_kwargs.pop('partial', None) on the dict held by opts
        o2 == IF HasOpt(o, "schema_patch_kwargs")
              THEN [o EXCEPT !.schema_patch_kwargs = DictPop(@, "partial")]
              ELSE o
        ld == SchemaLoad(ep, r.doc, TRUE)
        early == LoadErrorReturn(ld)
        bad == PatchIdCheck(r.doc, r.id)
    IN  IF Returned(early) THEN Outcome(early, o2, st, <<>>)
        ELSE IF bad.exc # "none"
        THEN Outcome(Tuple2(jsonapi_errors(<<ToDict(bad)>>), bad.status), o2, st, <<>>)
        ELSE PatchFetchUpdate(ep, o2, st, r, nf, ld.data)

ResourceDetailDelete(ep, o, st, r, nf) ==
    IF ~Exists(st, r.id)
    THEN Outcome(Tuple2(jsonapi_errors(<<ToDict(ObjectNotFound(nf))>>), nf), o, st,
                 <<Call("get_object", r.id, "")>>)
    ELSE Outcome(Tuple2(PyStr(<<>>), 204), o, delete_object(st, r.id),
                 <<Call("get_object", r.id, ""), Call("delete_object", r.id, "")>>)

----------------------------------------------------------------------------
(* Relationship                                                            *)

\* kwargs of the view: the route parameters
RouteKwargs(id) == [k \in {"id"} |-> IntV(id)]

\* url_for(endpoint, **params)
url_for(name, params) == [endpoint |-> name, params |-> params]

RECURSIVE FillTemplate(_, _, _, _, _)
\* the loop over copy(self.opts.endpoint_kwargs).items(), keys in the order
\* ord: each value of the copy is walked from obj and written back into
\* self.opts.endpoint_kwargs; a failing getattr or split ends the loop
FillTemplate(tpl, src, obj, ord, i) ==
    IF i > Len(ord) THEN [tpl |-> tpl, raised |-> NoExc]
    ELSE LET v == EvalTemplateValue(obj, src[ord[i]]) IN
         IF v.t = "missing"
         THEN [tpl |-> tpl, raised |-> PyError("AttributeError")]
         ELSE FillTemplate([tpl EXCEPT ![ord[i]] = v], src, obj, ord, i + 1)

\* orders in which a dict hands out its keys
KeyOrders(d) ==
    {ord \in [1..Cardinality(DOMAIN d) -> DOMAIN d] :
        \A a, b \in DOMAIN ord : a # b => ord[a] # ord[b]}

\* a get that puts the errors of compute_schema into the result it has built
RelationshipGet_ErrorsInResult(ep, o, st, r, dl, linkage, ord) ==
    LET cs == <<Call("get_relation", r.id, "")>>
        kwargs == RouteKwargs(r.id)
        obj == ObjV(r.id)
        fill == IF HasOpt(o, "endpoint_kwargs")
                THEN FillTemplate(o.endpoint_kwargs, o.endpoint_kwargs, obj, ord, 1)
                ELSE [tpl |-> o.endpoint_kwargs, raised |-> NoExc]
        o2 == [o EXCEPT !.endpoint_kwargs = fill.tpl]
        related_endpoint_kwargs ==
            IF HasOpt(o, "endpoint_kwargs") THEN o2.endpoint_kwargs ELSE kwargs
        links == [self |-> url_for("self", kwargs),
                  related |-> url_for("related", related_endpoint_kwargs)]
        data == [shape |-> "linkage", type |-> "", id |-> 0, val |-> "",
                 ids |-> linkage]
        e == ComputeSchema(r.qs, r.qs.include)
    IN  IF dl.exc # "none"
        THEN Outcome(Tuple2(jsonapi_errors(<<ToDict(dl)>>), dl.status), o, st, cs)
        ELSE IF fill.raised.exc # "none"
        THEN Outcome(Raise(fill.raised), o2, st, cs)
        ELSE IF r.qs.include = "none"
        THEN Outcome(Raw(PyDoc({"links", "data"}, <<>>, data, links)), o2, st, cs)
        ELSE IF e.exc # "none"
        THEN Outcome(Tuple2(PyDoc({"links", "data", "errors"}, <<ToDict(e)>>, data, links),
                            e.status), o2, st, cs)
        ELSE Outcome(Raw(PyDoc({"links", "data", "included"}, <<>>, data, links)),
                     o2, st, cs)

RelationshipGet(ep, o, st, r, dl, linkage, ord) ==
    LET cs == <<Call("get_relation", r.id, "")>>
        kwargs == RouteKwargs(r.id)
        obj == ObjV(r.id)
        fill == IF HasOpt(o, "endpoint_kwargs")
                THEN FillTemplate(o.endpoint_kwargs, o.endpoint_kwargs, obj, ord, 1)
                ELSE [tpl |-> o.endpoint_kwargs, raised |-> NoExc]
        o2 == [o EXCEPT !.endpoint_kwargs = fill.tpl]
        related_endpoint_kwargs ==
            IF HasOpt(o, "endpoint_kwargs") THEN o2.endpoint_kwargs ELSE kwargs
        links == [self |-> url_for("self", kwargs),
                  related |-> url_for("related", related_endpoint_kwargs)]
        data == [shape |-> "linkage", type |-> "", id |-> 0, val |-> "",
                 ids |-> linkage]
        e == ComputeSchema(r.qs, r.qs.include)
    IN  IF dl.exc # "none"
        THEN Outcome(Tuple2(jsonapi_errors(<<ToDict(dl)>>), dl.status), o, st, cs)
        ELSE IF fill.raised.exc # "none"
        THEN Outcome(Raise(fill.raised), o2, st, cs)
        ELSE IF r.qs.include = "none"
        THEN Outcome(Raw(PyDoc({"links", "data"}, <<>>, data, links)), o2, st, cs)
        ELSE IF e.exc # "none"
        THEN Outcome(Tuple2(jsonapi_errors(<<ToDict(e)>>), e.status), o2, st, cs)
        ELSE Outcome(Raw(PyDoc({"links", "data", "included"}, <<>>, data, links)),
                     o2, st, cs)

\* the three checks made on one item of `data`; typeAttr is the type the
\* item is compared with, "absent" when the attribute read does not exist
CheckItem(item, typeAttr, mismatch) ==
    IF item.t = "null" THEN PyError("TypeError")
    ELSE IF item.t = "str" \/ item.type = "absent"
    THEN BadRequest("/data/type", "Missing type in \"data\" node")
    ELSE IF item.id = 0
    THEN BadRequest("/data/id", "Missing id in \"data\" node")
    ELSE IF typeAttr = "absent" THEN PyError("AttributeError")
    ELSE IF item.type # typeAttr THEN InvalidType("/data/type", mismatch)
    ELSE NoExc

RECURSIVE CheckItems(_, _, _)
\* the for loop over json_data['data']: the first item that fails ends it
CheckItems(items, typeAttr, i) ==
    IF i > Len(items) THEN NoExc
    ELSE LET e == CheckItem(items[i], typeAttr,
                            "The type provided does not match the resource type")
         IN  IF e.exc # "none" THEN e ELSE CheckItems(items, typeAttr, i + 1)

\* 'data' not in json_data
DataNotIn(doc) ==
    IF doc.t = "null" THEN PyError("TypeError")
    ELSE IF doc.t = "list" \/ doc.data.t = "absent"
    THEN BadRequest("/data", "You must provide data with a \"data\" route node")
    ELSE NoExc

\* the try block of Relationship.post and Relationship.delete
ValidateList(ep, doc) ==
    IF DataNotIn(doc).exc # "none" THEN DataNotIn(doc)
    ELSE IF doc.data.t # "list"
    THEN BadRequest("/data", "You must provide data as list")
    ELSE CheckItems(doc.data.items, ep.type, 1)

\* the try block of Relationship.patch: the dict branch compares with the
\* local type_, the list branch with self.type_
ValidatePatch(ep, doc) ==
    IF DataNotIn(doc).exc # "none" THEN DataNotIn(doc)
    ELSE IF doc.data.t = "obj"
    THEN CheckItem(doc.data.item, ep.type,
                   "The type field does not match the resource type")
    ELSE IF doc.data.t = "list"
    THEN CheckItems(doc.data.items, ep.type_attr, 1)
    ELSE NoExc

\* what a handler does with the exception its validation block raised
ValidationReturn(e) ==
    IF e.exc \in {"BadRequest", "InvalidType"}
    THEN Tuple2(jsonapi_errors(<<ToDict(e)>>), e.status)
    ELSE Raise(e)

\* a relationship mutator that calls the data layer again after a condition
\* it catches
RelationCall_Retries(op, caught, o, st, r, dl) ==
    LET cs == <<Call(op, r.id, r.doc)>> IN
    IF dl.exc = "none" THEN Outcome(Raw(PyStr(<<>>)), o, st, cs)
    ELSE IF dl.exc \in caught
    THEN Outcome(Tuple2(jsonapi_errors(<<ToDict(dl)>>), dl.status), o, st, cs \o cs)
    ELSE Outcome(Raise(dl), o, st, cs)

\* the data layer call of a relationship mutator and the except clause
\* around it, which catches the conditions named in caught
RelationCall(op, caught, o, st, r, dl) ==
    LET cs == <<Call(op, r.id, r.doc)>> IN
    IF dl.exc = "none" THEN Outcome(Raw(PyStr(<<>>)), o, st, cs)
    ELSE IF dl.exc \in caught
    THEN Outcome(Tuple2(jsonapi_errors(<<ToDict(dl)>>), dl.status), o, st, cs)
    ELSE Outcome(Raise(dl), o, st, cs)

RelationshipPost(ep, o, st, r, dl) ==
    LET e == ValidateList(ep, r.doc) IN
    IF e.exc # "none" THEN Outcome(ValidationReturn(e), o, st, <<>>)
    ELSE RelationCall("create_relation", {"RelationNotFound", "ObjectNotFound"},
                      o, st, r, dl)

RelationshipPatch(ep, o, st, r, dl) ==
    LET e == ValidatePatch(ep, r.doc) IN
    IF e.exc # "none" THEN Outcome(ValidationReturn(e), o, st, <<>>)
    ELSE RelationCall("update_relation", {"RelationNotFound", "ObjectNotFound"},
                      o, st, r, dl)

\* a delete with the except clause of post and patch
RelationshipDelete_CatchesBoth(ep, o, st, r, dl) ==
    LET e == ValidateList(ep, r.doc) IN
    IF e.exc # "none" THEN Outcome(ValidationReturn(e), o, st, <<>>)
    ELSE RelationCall("delete_relation", {"RelationNotFound", "ObjectNotFound"},
                      o, st, r, dl)

RelationshipDelete(ep, o, st, r, dl) ==
    LET e == ValidateList(ep, r.doc) IN
    IF e.exc # "none" THEN Outcome(ValidationReturn(e), o, st, <<>>)
    ELSE RelationCall("delete_relation", {"RelationNotFound"}, o, st, r, dl)

----------------------------------------------------------------------------
(* Requests                                                                *)

QueryStrings == [fields : {"ok", "invalid"}, include : {"none", "ok", "invalid"}]

NoQs == [fields |-> "ok", include |-> "none"]

\* the `id` member of a resource document: absent, a number, or the string "1"
DocIds == {NoAttr, StrV(<<"1">>)} \cup {IntV(n) : n \in Ids}

\* resource documents of a POST or PATCH body
ResourceDocs ==
    [type : {"person", "computer"}, fields : [1..Len(Fields) -> FieldStates],
     id : DocIds, val : Vals]

NoDoc == [t |-> "none"]

\* items of a relationship document's `data` list
NoItem == [t |-> "null", type |-> "absent", id |-> 0]

RelItems ==
    [t : {"obj"}, type : {"person", "computer", "absent"}, id : {0, 1}]
    \cup {NoItem, [t |-> "str", type |-> "absent", id |-> 0]}

RECURSIVE SeqsUpTo(_, _)
SeqsUpTo(S, n) ==
    IF n = 0 THEN {<<>>}
    ELSE LET shorter == SeqsUpTo(S, n - 1) IN
         shorter \cup {Append(q, x) : q \in {p \in shorter : Len(p) = n - 1}, x \in S}

RelData(t, item, items) == [t |-> t, item |-> item, items |-> items]

\* the `data` member: absent, null, a string, one object or a list
RelDatas ==
    {RelData(t, NoItem, <<>>) : t \in {"absent", "null", "str"}}
    \cup {RelData("obj", item, <<>>) : item \in {x \in RelItems : x.t = "obj"}}
    \cup {RelData("list", NoItem, items) : items \in SeqsUpTo(RelItems, MaxItems)}

\* request.get_json() of a relationship request: null, a list or an object
RelDocs ==
    {[t |-> t, data |-> RelData("absent", NoItem, <<>>)] : t \in {"null", "list"}}
    \cup {[t |-> "obj", data |-> d] : d \in RelDatas}

Request(verb, id, qs, doc) == [verb |-> verb, id |-> id, qs |-> qs, doc |-> doc]

----------------------------------------------------------------------------
(* Registration                                                            *)

Options(attrs, get, patch, ek) ==
    [attrs |-> attrs, schema_get_kwargs |-> get, schema_patch_kwargs |-> patch,
     endpoint_kwargs |-> ek]

OnlyName == [k \in {"only"} |-> StrV(<<"name">>)]

ListOptions ==
    {Options({}, EmptyDict, EmptyDict, EmptyDict),
     Options({"schema_get_kwargs"}, EmptyDict, EmptyDict, EmptyDict),
     Options({"schema_get_kwargs"}, OnlyName, EmptyDict, EmptyDict)}

DetailOptions ==
    {Options({}, EmptyDict, EmptyDict, EmptyDict),
     Options({"schema_patch_kwargs"}, EmptyDict, OnlyName, EmptyDict),
     Options({"schema_patch_kwargs"}, EmptyDict,
             [k \in {"partial"} |-> PyFalse], EmptyDict)}

\* endpoint_kwargs templates: output key -> dotted attribute path
Template(keys) ==
    [k \in keys |-> IF k = "name" THEN StrV(<<"name">>) ELSE StrV(<<"owner", "id">>)]

RelationshipOptions ==
    {Options({}, EmptyDict, EmptyDict, EmptyDict),
     Options({"endpoint_kwargs"}, EmptyDict, EmptyDict, [k \in {"id"} |-> StrV(<<"id">>)]),
     Options({"endpoint_kwargs"}, EmptyDict, EmptyDict, Template({"id"})),
     Options({"endpoint_kwargs"}, EmptyDict, EmptyDict, Template({"id", "name"}))}

\* the verbs the classes define a method for
KindVerbs(kind) ==
    IF kind = "list" THEN {"GET", "POST"}
    ELSE IF kind = "detail" THEN {"GET", "PATCH", "DELETE"}
    ELSE {"GET", "POST", "PATCH", "DELETE"}

\* the verbs a request may carry
Verbs == {"GET", "POST", "PATCH", "DELETE", "HEAD", "PUT"}

\* the part of class Meta the metaclasses read: not_allowed_methods and the
\* <verb>_decorators lists
Meta(not_allowed, decorators) ==
    [not_allowed_methods |-> not_allowed, decorators |-> decorators]

NoDecorators == [v \in {} |-> <<>>]

NoMeta == Meta({}, NoDecorators)

\* a registration where the decorators of a verb are wrapped around the method
\* written in the class, the replacement of lines 51-56 lost
ResourceMetaInit_DecoratedOriginal(kind, meta) ==
    [v \in KindVerbs(kind) |->
        [not_allowed |-> v \in meta.not_allowed_methods /\ v \notin DOMAIN meta.decorators,
         decorators |-> IF v \in DOMAIN meta.decorators
                        THEN meta.decorators[v] ELSE <<>>]]

\* ResourceMeta.__init__ and the __init__ of the three metaclasses under it:
\* a listed verb the class has a method for is bound to not_allowed_method,
\* then the verb's decorators are wrapped around whatever is bound
ResourceMetaInit(kind, meta) ==
    [v \in KindVerbs(kind) |->
        [not_allowed |-> v \in meta.not_allowed_methods,
         decorators |-> IF v \in DOMAIN meta.decorators
                        THEN meta.decorators[v] ELSE <<>>]]

\* type is schema.opts.type_; type_attr is the class attribute type_ of the
\* resource, "absent" when the class has none
Endpoint(kind, strict, type_attr) ==
    [kind |-> kind, type |-> "person", strict |-> strict, type_attr |-> type_attr,
     meta |-> NoMeta, handlers |-> ResourceMetaInit(kind, NoMeta)]

\* the class created with this Meta
WithMeta(ep, meta) ==
    [ep EXCEPT !.meta = meta, !.handlers = ResourceMetaInit(ep.kind, meta)]

\* Meta classes that disable a verb, decorate a verb, or both
Metas(kind) ==
    {Meta({"HEAD"}, NoDecorators)}
    \cup {Meta({v}, NoDecorators) : v \in KindVerbs(kind)}
    \cup {Meta({}, [w \in {v} |-> <<"with_headers">>]) : v \in KindVerbs(kind)}
    \cup {Meta({v}, [w \in {v} |-> <<"with_headers">>]) : v \in KindVerbs(kind)}
    \cup {Meta({}, [w \in {v} |-> <<"logged", "with_headers">>]) : v \in {"GET"}}

PlainEndpoints ==
    {Endpoint(kind, strict, "absent") : kind \in {"list", "detail"}, strict \in BOOLEAN}
    \cup {Endpoint("relationship", FALSE, ta) : ta \in {"absent", "person"}}

ConfiguredEndpoints(kind) ==
    {WithMeta(Endpoint(kind, FALSE, IF kind = "relationship" THEN "person" ELSE "absent"),
              meta) : meta \in Metas(kind)}

Endpoints ==
    PlainEndpoints
    \cup UNION {ConfiguredEndpoints(kind) : kind \in {"list", "detail", "relationship"}}

\* the resolution without the fallback of HEAD
Resolve_NoHeadFallback(ep, verb) ==
    IF verb \in DOMAIN ep.handlers THEN verb ELSE "none"

\* getattr(self, request.method.lower(), None), HEAD falling back to get;
\* "none" when meth is None
Resolve(ep, verb) ==
    IF verb \in DOMAIN ep.handlers THEN verb
    ELSE IF verb = "HEAD" /\ "GET" \in DOMAIN ep.handlers THEN "GET"
    ELSE "none"

\* what not_allowed_method(f) returns, whatever its arguments
NotAllowedReturn ==
    Tuple2(jsonapi_errors(<<[status |-> "405", title |-> "Method not allowed",
                            detail |-> "method not allowed", pointer |-> ""]>>),
           405)

ExtraHeaders == [k \in {"X-Served-By"} |-> StrV(<<"api">>)]

\* a decorator of a <verb>_decorators list around a call of f that returned
\* ret: "logged" hands the result on, "with_headers" makes it a
\* (body, status, headers) tuple
Decorate(name, ret) ==
    IF name # "with_headers" \/ ret.raised.exc # "none" THEN ret
    ELSE IF ~ret.tuple THEN Tuple3(ret.items[1], 200, ExtraHeaders)
    ELSE Tuple3(ret.items[1], ret.items[2], ExtraHeaders)

RECURSIVE Decorated(_, _, _)
Decorated(decorators, ret, i) ==
    IF i > Len(decorators) THEN ret
    ELSE Decorated(decorators, Decorate(decorators[i], ret), i + 1)

\* meth(*args, **kwargs) for the method bound to verb: out is what the
\* method written in the class does
Invoke(ep, verb, out, o, st) ==
    LET h == ep.handlers[verb]
        base == IF h.not_allowed THEN Outcome(NotAllowedReturn, o, st, <<>>) ELSE out
    IN  [base EXCEPT !.ret = Decorated(h.decorators, base.ret, 1)]

OptionsOf(kind) ==
    IF kind = "list" THEN ListOptions
    ELSE IF kind = "detail" THEN DetailOptions
    ELSE RelationshipOptions

\* the requests for which the classes have a method
HandledRequests(kind) ==
    IF kind = "list"
    THEN {Request("GET", 0, qs, NoDoc) : qs \in QueryStrings}
         \cup {Request("POST", 0, NoQs, doc) : doc \in ResourceDocs}
    ELSE IF kind = "relationship"
    THEN {Request("GET", id, qs, NoDoc) : id \in Ids, qs \in QueryStrings}
         \cup {Request(verb, id, NoQs, doc) :
                   verb \in {"POST", "PATCH", "DELETE"}, id \in Ids, doc \in RelDocs}
    ELSE {Request("GET", id, qs, NoDoc) : id \in Ids, qs \in QueryStrings}
         \cup {Request("PATCH", id, NoQs, doc) : id \in Ids, doc \in ResourceDocs}
         \cup {Request("DELETE", id, NoQs, NoDoc) : id \in Ids}

\* the requests a client may send to the endpoint
Requests(kind) ==
    HandledRequests(kind)
    \cup {[r EXCEPT !.verb = "HEAD"] : r \in {x \in HandledRequests(kind) : x.verb = "GET"}}
    \cup {Request(verb, id, NoQs, NoDoc) :
              verb \in Verbs \ (KindVerbs(kind) \cup {"HEAD"}),
              id \in (IF kind = "list" THEN {0} ELSE Ids)}

NoRequest == Request("", 0, NoQs, NoDoc)
NoResponse == make_response(<<>>, 0, EmptyDict)
NoMeth == [name |-> "", ret |-> NoReturn]

\* the threads of the server that serve requests at the same time
Threads == {1, 2}

\* a thread before its request: no owner fetched, nothing copied, no link
NoThread ==
    [pc |-> "start", owner |-> 0, copy |-> EmptyDict, ord |-> <<>>, i |-> 1,
     link |-> url_for("", EmptyDict)]

\* the endpoints with a Meta of Metas carry no other option
Init ==
    /\ endpoint \in Endpoints
    /\ opts \in OptionsOf(endpoint.kind)
    /\ endpoint \notin PlainEndpoints => opts = Options({}, EmptyDict, EmptyDict, EmptyDict)
    /\ registered = opts
    /\ store = [objects |-> [n \in Ids |-> IF n = 1 THEN "a" ELSE "absent"]]
    /\ req = NoRequest
    /\ resp = NoResponse
    /\ calls = <<>>
    /\ meth = NoMeth
    /\ threads = [t \in Threads |-> NoThread]
    /\ pc = "idle"

\* a request arrives and is bound to flask.request
Receive ==
    /\ pc = "idle"
    /\ req' \in Requests(endpoint.kind)
    /\ pc' = "pending"
    /\ UNCHANGED <<endpoint, opts, registered, store, resp, calls, meth, threads>>

\* the method bound to the resolved verb runs and dispatch_request builds
\* the response; out is what the method written in the class does
Serve(out) ==
    LET verb == Resolve(endpoint, req.verb)
        done == Invoke(endpoint, verb, out, opts, store)
    IN  /\ meth' = [name |-> verb, ret |-> done.ret]
        /\ resp' = dispatch_request(done.ret)
        /\ opts' = done.opts
        /\ store' = done.store
        /\ calls' = done.calls
        /\ pc' = "answered"
        /\ UNCHANGED <<endpoint, registered, req, threads>>

\* the request is bound and its verb resolves to the method of verb
Pending(kind, verb) ==
    pc = "pending" /\ endpoint.kind = kind /\ Resolve(endpoint, req.verb) = verb

\* no method resolved: the assert of dispatch_request fails
Unimplemented ==
    /\ pc = "pending"
    /\ Resolve(endpoint, req.verb) = "none"
    /\ meth' = [name |-> "none", ret |-> Raise(PyError("AssertionError"))]
    /\ resp' = dispatch_request(Raise(PyError("AssertionError")))
    /\ calls' = <<>>
    /\ pc' = "answered"
    /\ UNCHANGED <<endpoint, opts, registered, store, req, threads>>

\* the status a missing object's condition carries
NotFoundChoices(id) == IF Exists(store, id) THEN {404} ELSE NotFoundStatuses

ListGet ==
    /\ Pending("list", "GET")
    /\ Serve(ResourceListGet(endpoint, opts, store, req))

\* newId is the identifier create_object gives the new object; 0 stands for
\* "none left", with which only a request that creates nothing is served
ListPost ==
    /\ Pending("list", "POST")
    /\ \E newId \in FreeIds(store) \cup {0} :
          /\ newId = 0 =>
                Returned(LoadErrorReturn(SchemaLoad(endpoint, req.doc, FALSE)))
          /\ Serve(ResourceListPost(endpoint, opts, store, req, newId))

DetailGet ==
    /\ Pending("detail", "GET")
    /\ \E nf \in NotFoundChoices(req.id) :
          Serve(ResourceDetailGet(endpoint, opts, store, req, nf))

DetailPatch ==
    /\ Pending("detail", "PATCH")
    /\ \E nf \in NotFoundChoices(req.id) :
          Serve(ResourceDetailPatch(endpoint, opts, store, req, nf))

DetailDelete ==
    /\ Pending("detail", "DELETE")
    /\ \E nf \in NotFoundChoices(req.id) :
          Serve(ResourceDetailDelete(endpoint, opts, store, req, nf))

RelationGet ==
    /\ Pending("relationship", "GET")
    /\ \E dl \in RelationOutcomes(store, req.id), linkage \in SUBSET Ids,
          ord \in KeyOrders(opts.endpoint_kwargs) :
          Serve(RelationshipGet(endpoint, opts, store, req, dl, linkage, ord))

RelationPost ==
    /\ Pending("relationship", "POST")
    /\ \E dl \in RelationOutcomes(store, req.id) :
          Serve(RelationshipPost(endpoint, opts, store, req, dl))

RelationPatch ==
    /\ Pending("relationship", "PATCH")
    /\ \E dl \in RelationOutcomes(store, req.id) :
          Serve(RelationshipPatch(endpoint, opts, store, req, dl))

RelationDelete ==
    /\ Pending("relationship", "DELETE")
    /\ \E dl \in RelationOutcomes(store, req.id) :
          Serve(RelationshipDelete(endpoint, opts, store, req, dl))

\* the response leaves and the request context is torn down
Deliver ==
    /\ pc = "answered"
    /\ req' = NoRequest
    /\ resp' = NoResponse
    /\ calls' = <<>>
    /\ meth' = NoMeth
    /\ pc' = "idle"
    /\ UNCHANGED <<endpoint, opts, registered, store, threads>>

Next ==
    \/ Receive
    \/ ListGet
    \/ ListPost
    \/ DetailGet
    \/ DetailPatch
    \/ DetailDelete
    \/ RelationGet
    \/ RelationPost
    \/ RelationPatch
    \/ RelationDelete
    \/ Unimplemented
    \/ Deliver

Spec == Init /\ [][Next]_vars

----------------------------------------------------------------------------
(* Relationship.get served by several threads at once. self.opts is the    *)
(* Meta class of the resource class, one object for all requests; a step   *)
(* holds at most one access to it                                          *)

InitConcurrent ==
    /\ endpoint = Endpoint("relationship", FALSE, "person")
    /\ opts \in RelationshipOptions
    /\ registered = opts
    /\ store = [objects |-> [n \in Ids |-> "a"]]
    /\ req = NoRequest
    /\ resp = NoResponse
    /\ calls = <<>>
    /\ meth = NoMeth
    /\ threads = [t \in Threads |-> NoThread]
    /\ pc = "idle"

\* lines 311-314: get_relation hands back the owning object of the request
GetRelation(t) ==
    /\ threads[t].pc = "start"
    /\ \E n \in Ids :
          /\ Exists(store, n)
          /\ threads' = [threads EXCEPT ![t].pc = "fetched", ![t].owner = n]
    /\ UNCHANGED <<endpoint, opts, registered, store, req, resp, calls, meth, pc>>

\* lines 316-318: copy(self.opts.endpoint_kwargs).items(); without the
\* attribute related_endpoint_kwargs stays kwargs
CopyTemplate(t) ==
    /\ threads[t].pc = "fetched"
    /\ IF HasOpt(opts, "endpoint_kwargs")
       THEN \E ord \in KeyOrders(opts.endpoint_kwargs) :
               threads' = [threads EXCEPT ![t].pc = "loop",
                                          ![t].copy = opts.endpoint_kwargs,
                                          ![t].ord = ord]
       ELSE threads' = [threads EXCEPT
                           ![t].pc = "done",
                           ![t].link = url_for("related", RouteKwargs(threads[t].owner))]
    /\ UNCHANGED <<endpoint, opts, registered, store, req, resp, calls, meth, pc>>

\* lines 319-324: one turn of the loop, the value of the copy walked from the
\* thread's own object and stored under the key in self.opts.endpoint_kwargs
WriteKey(t) ==
    LET th == threads[t]
        key == th.ord[th.i]
        v == EvalTemplateValue(ObjV(th.owner), th.copy[key])
    IN  /\ th.pc = "loop"
        /\ th.i <= Len(th.ord)
        /\ IF v.t = "missing"
           THEN /\ threads' = [threads EXCEPT ![t].pc = "faulted"]
                /\ opts' = opts
           ELSE /\ threads' = [threads EXCEPT ![t].i = th.i + 1]
                /\ opts' = [opts EXCEPT !.endpoint_kwargs[key] = v]
        /\ UNCHANGED <<endpoint, registered, store, req, resp, calls, meth, pc>>

\* lines 325-328: related_endpoint_kwargs = self.opts.endpoint_kwargs, read
\* when url_for is called
BuildLink(t) ==
    LET th == threads[t]
    IN  /\ th.pc = "loop"
        /\ th.i > Len(th.ord)
        /\ threads' = [threads EXCEPT
                          ![t].pc = "done",
                          ![t].link = url_for("related", opts.endpoint_kwargs)]
        /\ UNCHANGED <<endpoint, opts, registered, store, req, resp, calls, meth, pc>>

NextConcurrent ==
    \E t \in Threads :
        \/ GetRelation(t)
        \/ CopyTemplate(t)
        \/ WriteKey(t)
        \/ BuildLink(t)

SpecConcurrent == InitConcurrent /\ [][NextConcurrent]_vars

----------------------------------------------------------------------------
(* Reading a response, a request and the call log                          *)

\* the method of verb is the one written in the class, undecorated
Plain(verb) ==
    /\ verb \in DOMAIN endpoint.handlers
    /\ ~endpoint.handlers[verb].not_allowed
    /\ endpoint.handlers[verb].decorators = <<>>

Answered(kind, verb) ==
    pc = "answered" /\ endpoint.kind = kind /\ req.verb = verb /\ Plain(verb)

\* the response is a JSON object
IsEnvelope(r) == r.fault = "none" /\ Len(r.body) = 3 /\ r.body[2].tok = "members"

Envelope(r) == r.body[2].doc

\* the error objects of a response, none when it is no error envelope
ErrorsOf(r) ==
    IF IsEnvelope(r) /\ "errors" \in Envelope(r).keys THEN Envelope(r).errors ELSE <<>>

CallCountIn(cs, op) == Cardinality({i \in DOMAIN cs : cs[i].op = op})

CallCount(op) == CallCountIn(calls, op)

\* a request is being answered in this step
Answering(kind, verb) ==
    /\ pc = "pending" /\ endpoint.kind = kind /\ req.verb = verb /\ Plain(verb)
    /\ pc' = "answered"

\* the not-found envelope, at the status the condition carries
NotFoundEnvelope(r) ==
    /\ r.fault = "none"
    /\ r.status \in NotFoundStatuses
    /\ Len(ErrorsOf(r)) = 1
    /\ ErrorsOf(r)[1].status = ToString(r.status)
    /\ ErrorsOf(r)[1].title = "Object not found"
    /\ "data" \notin Envelope(r).keys

\* a response with exactly one error object of this status, title and pointer
OneError(r, status, title, pointer) ==
    /\ r.fault = "none"
    /\ r.status = status
    /\ Len(ErrorsOf(r)) = 1
    /\ ErrorsOf(r)[1].status = ToString(status)
    /\ ErrorsOf(r)[1].title = title
    /\ ErrorsOf(r)[1].pointer = pointer

----------------------------------------------------------------------------
(* Claims                                                                  *)

\* C1: no request mutates Endpoint Type state: after any sequence of
\* requests the options record (endpoint_kwargs template, schema_get_kwargs,
\* schema_patch_kwargs) equals its value at registration time.
C1_OptionsNeverMutated == opts = registered

\* the route parameters the template of registration time yields for owner n
ExpectedRelatedParams(n) ==
    [k \in DOMAIN registered.endpoint_kwargs |->
        WalkPath(ObjV(n), registered.endpoint_kwargs[k].segs)]

\* C2: every Relationship GET that fetched its owning object, the first and
\* any later one, answers with a `related` link whose route parameters are
\* the template's attribute paths evaluated on that object, or the request's
\* route parameters when no template is configured.
C2_RelatedLinkFromTemplate ==
    Answered("relationship", "GET") =>
        /\ resp.fault = "none"
        /\ (IsEnvelope(resp) /\ "links" \in Envelope(resp).keys) =>
              Envelope(resp).links.related.params =
                 (IF HasOpt(registered, "endpoint_kwargs")
                  THEN ExpectedRelatedParams(req.id)
                  ELSE RouteKwargs(req.id))

\* what the claims ask of one item of a relationship document
ItemLacksType(item) == item.t # "obj" \/ item.type = "absent"
ItemLacksId(item) == item.t # "obj" \/ item.id = 0
ItemTypeDiffers(item) ==
    item.t = "obj" /\ item.type # "absent" /\ item.type # endpoint.type
ItemOk(item) == ~ItemLacksType(item) /\ ~ItemLacksId(item) /\ ~ItemTypeDiffers(item)

AllItemsOk(items) == \A i \in DOMAIN items : ItemOk(items[i])

\* the 400 response for a list of items of which one fails: the pointer of a
\* missing field on the BadRequest branch, or the InvalidType branch
ItemErrorResponse(r, items) ==
    /\ r.fault = "none"
    /\ r.status = 400
    /\ Len(ErrorsOf(r)) = 1
    /\ LET e == ErrorsOf(r)[1] IN
       \/ /\ e.title = "Bad request" /\ e.pointer = "/data/type"
          /\ \E i \in DOMAIN items : ItemLacksType(items[i])
       \/ /\ e.title = "Bad request" /\ e.pointer = "/data/id"
          /\ \E i \in DOMAIN items : ItemLacksId(items[i])
       \/ /\ e.title = "Invalid type"
          /\ \E i \in DOMAIN items : ItemTypeDiffers(items[i])

\* C3: Relationship POST and DELETE call create_relation / delete_relation
\* only if `data` is a list whose items all carry `type` and `id` with the
\* declared type; any other document gets a 400 error and no data layer
\* call: pointer /data for missing or non-list data, /data/type or /data/id
\* for a missing field, the InvalidType error for a type mismatch.
C3_ListValidationBeforePersistence ==
    (Answered("relationship", "POST") \/ Answered("relationship", "DELETE")) =>
        LET doc == req.doc
            isList == doc.t = "obj" /\ doc.data.t = "list"
        IN  IF isList /\ AllItemsOk(doc.data.items) THEN TRUE
            ELSE /\ calls = <<>>
                 /\ IF ~isList
                    THEN OneError(resp, 400, "Bad request", "/data")
                    ELSE ItemErrorResponse(resp, doc.data.items)

\* C4: Relationship PATCH checks the single object, or every item of a
\* list, as POST does: a missing `type` or `id` gives 400 with pointer
\* /data/type or /data/id, a type mismatch the InvalidType 400 error, and
\* update_relation is called only when every item passed.  (Stated for
\* documents whose items are all JSON objects.)
C4_PatchValidatesLikePost ==
    (/\ Answered("relationship", "PATCH")
     /\ req.doc.t = "obj"
     /\ req.doc.data.t \in {"obj", "list"}
     /\ \A i \in DOMAIN req.doc.data.items : req.doc.data.items[i].t = "obj") =>
        LET items == IF req.doc.data.t = "obj"
                     THEN <<req.doc.data.item>> ELSE req.doc.data.items
        IN  IF AllItemsOk(items) THEN resp.fault = "none"
            ELSE calls = <<>> /\ ItemErrorResponse(resp, items)

\* the fields of a document that fail validation under the verb's load
FailingFields(doc, verb) ==
    {i \in DOMAIN doc.fields :
        doc.fields[i] = "invalid" \/ (doc.fields[i] = "missing" /\ verb = "POST")}

\* the body passes schema validation
LoadPasses(doc, verb) ==
    doc.type = endpoint.type /\ FailingFields(doc, verb) = {}

MissingIdDetail == "Missing id in \"data\" node"

\* C5: a single-resource PATCH whose body passes validation gets 400 with
\* pointer /data/id when data.id is absent, and 400 with the same pointer
\* and another message when data.id differs from the route identifier; in
\* both cases neither get_object nor update_object is called.
C5_PatchIdErrors ==
    (Answered("detail", "PATCH") /\ LoadPasses(req.doc, "PATCH")) =>
        /\ req.doc.id.t = "missing" =>
              /\ OneError(resp, 400, "Bad request", "/data/id")
              /\ ErrorsOf(resp)[1].detail = MissingIdDetail
              /\ calls = <<>>
        /\ (req.doc.id.t # "missing" /\ req.doc.id # IntV(req.id)) =>
              /\ OneError(resp, 400, "Bad request", "/data/id")
              /\ ErrorsOf(resp)[1].detail # MissingIdDetail
              /\ calls = <<>>

C5_Witness ==
    /\ Answered("detail", "PATCH")
    /\ LoadPasses(req.doc, "PATCH")
    /\ req.doc.id = IntV(2)
    /\ req.id = 1
    /\ Exists(store, 1)
    /\ resp.status = 400

\* C6: a single-resource PATCH with a valid body whose data.id equals the
\* route identifier fetches the object, makes exactly one update_object call
\* with the validated data and answers 200 with the serialized updated
\* object; when the object is missing it answers the not-found envelope at
\* the condition's status and never calls update_object.
C6_PatchFetchesThenUpdates ==
    [][(/\ Answering("detail", "PATCH")
        /\ LoadPasses(req.doc, "PATCH")
        /\ req.doc.id = IntV(req.id)) =>
          IF Exists(store, req.id)
          THEN /\ calls' = <<Call("get_object", req.id, ""),
                             Call("update_object", req.id, req.doc.val)>>
               /\ store' = [store EXCEPT !.objects[req.id] = req.doc.val]
               /\ resp' = make_response(JsonDumps(SchemaDump(endpoint, store', req.id)),
                                        200, EmptyDict)
          ELSE /\ calls' = <<Call("get_object", req.id, "")>>
               /\ store' = store
               /\ NotFoundEnvelope(resp')]_vars

C6_Witness ==
    /\ Answered("detail", "PATCH")
    /\ resp.status = 200
    /\ CallCount("update_object") = 1
    /\ req.doc.val = "b"
    /\ store.objects[req.id] = "b"
    /\ IsEnvelope(resp) /\ Envelope(resp).data.val = "b"

AllErrorsHaveStatus(r, status) ==
    \A i \in DOMAIN ErrorsOf(r) : ErrorsOf(r)[i].status = status

\* C7: a collection POST or single-resource PATCH whose document declares a
\* type other than the schema's answers 409, every error object has status
\* "409", and no data layer call is made.
C7_TypeMismatchIs409 ==
    ((Answered("list", "POST") \/ Answered("detail", "PATCH"))
        /\ req.doc.type # endpoint.type) =>
        /\ resp.fault = "none"
        /\ resp.status = 409
        /\ Len(ErrorsOf(resp)) >= 1
        /\ AllErrorsHaveStatus(resp, "409")
        /\ "data" \notin Envelope(resp).keys
        /\ calls = <<>>

C7_Witness ==
    /\ Answered("list", "POST")
    /\ req.doc.type = "computer"
    /\ req.doc.fields[1] = "invalid"
    /\ resp.status = 409

\* C8: a collection POST or single-resource PATCH with failing fields,
\* raised by the load or returned by it, answers one 422 envelope with one
\* error object per failing field, each with status "422", and makes no data
\* layer call; create_object is called, and 201 returned, only when the load
\* reports no errors.
C8_ValidationFailuresAre422 ==
    /\ ((Answered("list", "POST") \/ Answered("detail", "PATCH"))
          /\ req.doc.type = endpoint.type
          /\ FailingFields(req.doc, req.verb) # {}) =>
          /\ resp.fault = "none"
          /\ resp.status = 422
          /\ Len(ErrorsOf(resp)) = Cardinality(FailingFields(req.doc, req.verb))
          /\ \A f \in FailingFields(req.doc, req.verb) :
                \E i \in DOMAIN ErrorsOf(resp) : ErrorsOf(resp)[i].pointer = Fields[f]
          /\ AllErrorsHaveStatus(resp, "422")
          /\ calls = <<>>
    /\ (Answered("list", "POST")
          /\ (CallCount("create_object") > 0 \/ resp.status = 201)) =>
          /\ LoadPasses(req.doc, "POST")
          /\ CallCount("create_object") = 1
          /\ resp.status = 201

C8_Witness ==
    /\ Answered("list", "POST")
    /\ ~endpoint.strict
    /\ req.doc.type = endpoint.type
    /\ Cardinality(FailingFields(req.doc, "POST")) = 2
    /\ resp.status = 422
    /\ Len(ErrorsOf(resp)) = 2

\* C9: a single-resource DELETE of an existing identifier calls
\* delete_object once and the response has status 204 and a zero-length
\* body; for a missing identifier the response is the not-found envelope and
\* delete_object is never called; no response with status 204 has a body.
C9_DeleteAnswers204Empty ==
    [][/\ Answering("detail", "DELETE") =>
            IF Exists(store, req.id)
            THEN /\ CallCountIn(calls', "delete_object") = 1
                 /\ resp'.status = 204
                 /\ resp'.body = <<>>
            ELSE /\ CallCountIn(calls', "delete_object") = 0
                 /\ NotFoundEnvelope(resp')
       /\ (resp'.fault = "none" /\ resp'.status = 204) => resp'.body = <<>>]_vars

\* C10: a Relationship POST, PATCH or DELETE that passed validation and
\* whose data layer call raised no condition answers 200 with an empty body.
C10_RelationSuccessIsEmpty200 ==
    (/\ pc = "answered"
     /\ endpoint.kind = "relationship"
     /\ req.verb \in {"POST", "PATCH", "DELETE"}
     /\ calls # <<>>
     /\ resp.fault = "none"
     /\ ErrorsOf(resp) = <<>>) =>
        resp.status = 200 /\ resp.body = <<>>

\* C11: the dispatcher resolves the verb of the request to the method of that
\* name, HEAD to the method of GET when the class has no method for HEAD; when
\* nothing resolves the request ends in the failed assertion, no method and no
\* data layer operation runs and no response is built
Unresolvable(kind, verb) ==
    /\ verb \notin KindVerbs(kind)
    /\ ~(verb = "HEAD" /\ "GET" \in KindVerbs(kind))

C11_VerbResolution ==
    [][pc = "pending" /\ pc' = "answered" =>
        /\ req.verb \in KindVerbs(endpoint.kind) => meth'.name = req.verb
        /\ req.verb = "HEAD" /\ "GET" \in KindVerbs(endpoint.kind) => meth'.name = "GET"
        /\ Unresolvable(endpoint.kind, req.verb) =>
               /\ meth'.name = "none"
               /\ resp' = Fault(PyError("AssertionError"))
               /\ calls' = <<>>
               /\ store' = store
               /\ opts' = opts]_vars

\* a HEAD request answered by the method of GET, which read the data layer
C11_Witness ==
    /\ pc = "answered"
    /\ req.verb = "HEAD"
    /\ meth.name = "GET"
    /\ resp.status = 200
    /\ calls # <<>>

\* a verb without a method ended in the failed assertion
C11_WitnessUnimplemented ==
    /\ pc = "answered"
    /\ req.verb = "PUT"
    /\ resp.fault = "AssertionError"

\* C12: the dispatcher turns what the method returned into one (body, status,
\* headers) triple and serialises the body: a value that is no tuple gets
\* status 200 and no headers, a pair keeps its status and gets no headers, a
\* triple keeps its status and its headers
C12_ReturnNormalised ==
    (pc = "answered" /\ meth.name # "none" /\ meth.ret.raised.exc = "none") =>
        LET r == meth.ret
        IN  /\ resp.fault = "none"
            /\ resp.body = JsonDumps(r.items[1])
            /\ ~r.tuple => resp.status = 200 /\ resp.headers = EmptyDict
            /\ r.tuple /\ Len(r.items) = 2 =>
                   resp.status = r.items[2] /\ resp.headers = EmptyDict
            /\ r.tuple /\ Len(r.items) = 3 =>
                   resp.status = r.items[2] /\ resp.headers = r.items[3]

\* a method returned a triple with headers and a status other than 200
C12_Witness ==
    /\ pc = "answered"
    /\ meth.ret.tuple
    /\ Len(meth.ret.items) = 3
    /\ meth.ret.items[3] # EmptyDict
    /\ meth.ret.items[2] # 200
    /\ resp.headers = meth.ret.items[3]

\* C13: a request whose verb is listed in not_allowed_methods and has a method
\* in the class is answered with the method-not-allowed envelope, whatever the
\* request carries and whatever decorators the verb has; the method written in
\* the class does not run: no data layer call, store and options untouched
Disabled(verb) ==
    verb \in endpoint.meta.not_allowed_methods /\ verb \in KindVerbs(endpoint.kind)

C13_DisabledVerbNotAllowed ==
    [][(pc = "pending" /\ pc' = "answered" /\ Disabled(req.verb)) =>
        /\ OneError(resp', 405, "Method not allowed", "")
        /\ "data" \notin Envelope(resp').keys
        /\ calls' = <<>>
        /\ store' = store
        /\ opts' = opts]_vars

\* a disabled verb that also has decorators was answered, for a request that
\* the method written in the class would have served from the data layer
C13_Witness ==
    /\ pc = "answered"
    /\ Disabled(req.verb)
    /\ req.verb \in DOMAIN endpoint.meta.decorators
    /\ req.verb = "DELETE"
    /\ Exists(store, req.id)
    /\ resp.status = 405
    /\ resp.headers = ExtraHeaders

\* C14: in Relationship DELETE a RelationNotFound raised by delete_relation
\* becomes its error envelope at the status of the condition and an
\* ObjectNotFound leaves the handler unhandled; in Relationship GET, POST and
\* PATCH both conditions become an error envelope at the status of the
\* condition
NotFoundTitles == {"Object not found", "Relation not found"}

\* the response is the envelope of a not-found condition with this title
ConditionEnvelope(r, title) ==
    /\ r.status \in NotFoundStatuses
    /\ OneError(r, r.status, title, "")
    /\ "data" \notin Envelope(r).keys

\* the response is one of the outcomes a handler may give when its data layer
\* call, made for an owner that exists or not, raises what it may raise
ConvertedOrSuccess(r, titles) ==
    \/ r.fault = "none" /\ r.status = 200
    \/ \E title \in titles : ConditionEnvelope(r, title)

C14_NotFoundConversion ==
    [][/\ (Answering("relationship", "DELETE") /\ calls' # <<>>) =>
            /\ ~Exists(store, req.id) =>
                   \E st \in NotFoundStatuses : resp' = Fault(ObjectNotFound(st))
            /\ Exists(store, req.id) =>
                   \/ ConvertedOrSuccess(resp', {"Relation not found"})
                   \/ \E st \in NotFoundStatuses : resp' = Fault(ObjectNotFound(st))
       /\ \A verb \in {"GET", "POST", "PATCH"} :
            (Answering("relationship", verb) /\ calls' # <<>>) =>
                /\ resp'.fault \notin {"ObjectNotFound", "RelationNotFound"}
                /\ ~Exists(store, req.id) => ConditionEnvelope(resp', "Object not found")
                /\ (verb # "GET" /\ resp'.fault = "none") =>
                       ConvertedOrSuccess(resp', NotFoundTitles)
      ]_vars

\* delete_relation was called for a missing owner and ObjectNotFound escaped
C14_Witness ==
    /\ Answered("relationship", "DELETE")
    /\ CallCount("delete_relation") = 1
    /\ resp.fault = "ObjectNotFound"

\* C15: requests served at the same time need no lock: when two Relationship
\* GET requests whose owning objects differ are interleaved in any way, the
\* `related` link of each is built from the route parameters and the owning
\* object of its own request only
C15_RelatedLinkOwnRequest ==
    \A t, u \in Threads :
        (/\ threads[t].pc = "done"
         /\ threads[u].owner # 0
         /\ threads[u].owner # threads[t].owner) =>
            threads[t].link.params =
                (IF HasOpt(registered, "endpoint_kwargs")
                 THEN ExpectedRelatedParams(threads[t].owner)
                 ELSE RouteKwargs(threads[t].owner))

\* C16: a request calls each data layer operation at most once and makes at
\* most one call that changes something; a condition raised by a data layer
\* call is followed by no other data layer call of the request and becomes
\* one response
DataLayerOps ==
    {"get_collection", "get_object", "create_object", "update_object", "delete_object",
     "get_relation", "create_relation", "update_relation", "delete_relation"}

MutatingOps ==
    {"create_object", "update_object", "delete_object",
     "create_relation", "update_relation", "delete_relation"}

\* the response reports a condition of the data layer, converted or not
ReportsCondition(r) ==
    \/ r.fault \in {"ObjectNotFound", "RelationNotFound"}
    \/ Len(ErrorsOf(r)) > 0 /\ ErrorsOf(r)[1].title \in NotFoundTitles

C16_NoRetry ==
    pc = "answered" =>
        /\ \A i \in DOMAIN calls : calls[i].op \in DataLayerOps
        /\ \A op \in DataLayerOps : CallCount(op) <= 1
        /\ Cardinality({i \in DOMAIN calls : calls[i].op \in MutatingOps}) <= 1
        /\ ReportsCondition(resp) =>
               /\ Len(calls) = 1
               /\ resp.fault = "none" => Len(ErrorsOf(resp)) = 1

\* update_relation raised a condition that was converted
C16_Witness ==
    /\ pc = "answered"
    /\ ReportsCondition(resp)
    /\ resp.fault = "none"
    /\ Len(calls) = 1
    /\ calls[1].op = "update_relation"

\* C17: in the body of every response of the three kinds of endpoint `data`
\* and `errors` exclude each other: a body with `errors` has no `data`, a
\* body of a success has no `errors`, also for a Relationship GET whose
\* include is invalid
C17_DataErrorsExclusive ==
    (pc = "answered" /\ IsEnvelope(resp)) =>
        /\ ~({"data", "errors"} \subseteq Envelope(resp).keys)
        /\ resp.status < 400 => "errors" \notin Envelope(resp).keys
        /\ "errors" \in Envelope(resp).keys => Len(Envelope(resp).errors) > 0

\* a Relationship GET that had built its result and then met an invalid include
C17_Witness ==
    /\ Answered("relationship", "GET")
    /\ req.qs.include = "invalid"
    /\ resp.status = 400
    /\ IsEnvelope(resp)
    /\ "errors" \in Envelope(resp).keys
    /\ "data" \notin Envelope(resp).keys

\* C18: the GET of one resource fetches the object before it builds the
\* schema: for a missing identifier the answer is the not-found envelope at
\* the status of the condition whatever fields and include ask for, an
\* invalid field or include gives its 400 envelope only when the object
\* exists, and in both cases nothing is serialised
InvalidQuery(qs) == qs.include = "invalid" \/ qs.fields = "invalid"

QueryErrorTitles ==
    {"Invalid fields querystring parameter.", "Invalid include querystring parameter."}

C18_FetchBeforeSchema ==
    Answered("detail", "GET") =>
        /\ calls = <<Call("get_object", req.id, "")>>
        /\ ~Exists(store, req.id) => NotFoundEnvelope(resp)
        /\ (Exists(store, req.id) /\ InvalidQuery(req.qs)) =>
               /\ resp.status = 400
               /\ Len(ErrorsOf(resp)) = 1
               /\ ErrorsOf(resp)[1].status = "400"
               /\ ErrorsOf(resp)[1].title \in QueryErrorTitles
               /\ "data" \notin Envelope(resp).keys
        /\ (Exists(store, req.id) /\ ~InvalidQuery(req.qs)) =>
               /\ resp.status = 200
               /\ IsEnvelope(resp)
               /\ "data" \in Envelope(resp).keys
               /\ Envelope(resp).data.id = req.id

\* a missing identifier asked for with an invalid include and invalid fields
C18_Witness ==
    /\ Answered("detail", "GET")
    /\ ~Exists(store, req.id)
    /\ req.qs.include = "invalid"
    /\ req.qs.fields = "invalid"
    /\ NotFoundEnvelope(resp)

\* C19: a Relationship POST, PATCH or DELETE whose document has one or more
\* violations answers with exactly one error object, that of the first
\* violation in the order: `data` missing, `data` of the wrong shape, then
\* the items in the order of the list, and in an item `type` missing before
\* `id` missing before a type that differs; later items are not looked at.
\* (Stated for documents that are JSON objects whose items are JSON objects.)
Violation(title, pointer) == [title |-> title, pointer |-> pointer]

NoViolation == Violation("", "")

ItemViolation(item) ==
    IF ItemLacksType(item) THEN Violation("Bad request", "/data/type")
    ELSE IF ItemLacksId(item) THEN Violation("Bad request", "/data/id")
    ELSE IF ItemTypeDiffers(item) THEN Violation("Invalid type", "/data/type")
    ELSE NoViolation

\* the violation of the first item that has one
FirstItemViolation(items) ==
    IF AllItemsOk(items) THEN NoViolation
    ELSE LET i == CHOOSE k \in DOMAIN items :
                      /\ ~ItemOk(items[k])
                      /\ \A j \in 1..(k - 1) : ItemOk(items[j])
         IN  ItemViolation(items[i])

FirstViolation(verb, doc) ==
    IF doc.data.t = "absent" THEN Violation("Bad request", "/data")
    ELSE IF doc.data.t = "list" THEN FirstItemViolation(doc.data.items)
    ELSE IF verb = "PATCH" /\ doc.data.t = "obj" THEN ItemViolation(doc.data.item)
    ELSE IF verb = "PATCH" THEN NoViolation
    ELSE Violation("Bad request", "/data")

\* the documents C19 is stated for
ObjectDocument(doc) ==
    /\ doc.t = "obj"
    /\ \A i \in DOMAIN doc.data.items : doc.data.items[i].t = "obj"

C19_FirstViolationOnly ==
    \A verb \in {"POST", "PATCH", "DELETE"} :
        (/\ Answered("relationship", verb)
         /\ ObjectDocument(req.doc)
         /\ FirstViolation(verb, req.doc) # NoViolation) =>
            LET v == FirstViolation(verb, req.doc)
            IN  /\ OneError(resp, 400, v.title, v.pointer)
                /\ calls = <<>>

\* C20: whatever the body of a Relationship POST, PATCH or DELETE is, also
\* null, a body that is no JSON object, or a `data` list with items that are
\* no objects, the request ends in the success response or in a 400 error
\* envelope: no malformed document leaves the handler as an unhandled fault
\* or reaches the data layer
WellFormed(verb, doc) ==
    /\ doc.t = "obj"
    /\ \/ doc.data.t = "list" /\ AllItemsOk(doc.data.items)
       \/ verb = "PATCH" /\ doc.data.t = "obj" /\ ItemOk(doc.data.item)
       \/ verb = "PATCH" /\ doc.data.t = "null"

C20_MalformedBodyIs400 ==
    \A verb \in {"POST", "PATCH", "DELETE"} :
        Answered("relationship", verb) =>
            /\ resp.fault \notin {"TypeError", "AttributeError"}
            /\ ~WellFormed(verb, req.doc) =>
                   /\ resp.fault = "none"
                   /\ resp.status = 400
                   /\ Len(ErrorsOf(resp)) = 1
                   /\ ErrorsOf(resp)[1].status = "400"
                   /\ calls = <<>>

====
